---- MODULE Spec2Model ----
(***************************************************************************)
(* Sensor Data Unifier: sensor_converter.py as a state machine.            *)
(*                                                                         *)
(* One run of main(): check that the two inputs exist, load them, convert  *)
(* each dataset entry by entry, concatenate, sort by timestamp, save.      *)
(* The file system, the machine's time zone and the outcome of the write   *)
(* are the environment.                                                    *)
(***************************************************************************)
EXTENDS Integers, Sequences, FiniteSets, TLC

VARIABLES
  tz,          \* offset of the machine's local time from UTC, in seconds
  file1,       \* data-1.json on disk
  file2,       \* data-2.json on disk
  output,      \* output.json on disk
  pc,          \* position of main()
  exitCode,    \* process exit code, -1 while the process runs
  abortCause,  \* which step raised, "" while none has
  data1,       \* main's data1
  data2,       \* main's data2
  idx,         \* convert_dataset's loop index (1-based)
  converted1,  \* convert_dataset's result for data1
  converted2,  \* convert_dataset's result for data2
  result,      \* main's result
  lastCall,    \* the last converter call: format, entry, outcome
  opens,       \* number of times output.json was opened for writing
  loads,       \* the paths load_json_file was called with, in order
  steps        \* the steps of main() that completed, in order

vars == <<tz, file1, file2, output, pc, exitCode, abortCause, data1, data2,
          idx, converted1, converted2, result, lastCall, opens, loads, steps>>

\* Longest dataset (number of entries of an input array) in Spec.
MaxLen == 2

-----------------------------------------------------------------------------
(* JSON values as Python sees them.  k is the Python type; "absent" is a   *)
(* key the object does not have.  A str is "" (n = 0), some other text     *)
(* that does not match %Y-%m-%dT%H:%M:%SZ (n > 0, ordered by n), or        *)
(* (k = "iso") a text that matches the pattern's digits, with the numbers  *)
(* read from it in dt = <<year, month, day, hour, minute, second>>.        *)

Absent == [k |-> "absent", n |-> 0, dt |-> <<>>]
Null == [k |-> "null", n |-> 0, dt |-> <<>>]
Num(i) == [k |-> "int", n |-> i, dt |-> <<>>]
Text(i) == [k |-> "str", n |-> i, dt |-> <<>>]
IsoText(y, mo, d, h, mi, s) == [k |-> "iso", n |-> 1, dt |-> <<y, mo, d, h, mi, s>>]

\* dict.get(key): None for a key that is not there.
Get(v) == IF v.k = "absent" THEN Null ELSE v

\* `x is None`
IsNone(v) == v.k = "null"

\* `not x` of Python: None, 0 and "" are falsy.
Falsy(v) == \/ v.k = "null"
            \/ v.k = "int" /\ v.n = 0
            \/ v.k = "str" /\ v.n = 0

\* type(x) is str
IsStr(v) == v.k \in {"str", "iso"}

-----------------------------------------------------------------------------
(* datetime.strptime(s, "%Y-%m-%dT%H:%M:%SZ") and datetime.timestamp().    *)

IsLeap(y) == y % 4 = 0 /\ (y % 100 # 0 \/ y % 400 = 0)

DaysInMonth(y, mo) ==
  IF mo = 2 THEN (IF IsLeap(y) THEN 29 ELSE 28)
  ELSE IF mo \in {4, 6, 9, 11} THEN 30 ELSE 31

\* The fields the pattern's directives accept and datetime(...) takes.
ValidDateTime(dt) ==
  /\ dt[1] \in 1..9999
  /\ dt[2] \in 1..12
  /\ dt[3] \in 1..DaysInMonth(dt[1], dt[2])
  /\ dt[4] \in 0..23
  /\ dt[5] \in 0..59
  /\ dt[6] \in 0..59

\* Days before January 1st of year y (proleptic Gregorian ordinal).
DaysBeforeYear(y) ==
  (y - 1) * 365 + ((y - 1) \div 4) - ((y - 1) \div 100) + ((y - 1) \div 400)

RECURSIVE DaysBeforeMonth(_, _)
DaysBeforeMonth(y, mo) ==
  IF mo = 1 THEN 0 ELSE DaysBeforeMonth(y, mo - 1) + DaysInMonth(y, mo - 1)

ToOrdinal(dt) == DaysBeforeYear(dt[1]) + DaysBeforeMonth(dt[1], dt[2]) + dt[3]

\* Seconds from 1970-01-01T00:00:00 to dt, both read on the same clock.
SecondsSinceEpochReading(dt) ==
  (ToOrdinal(dt) - ToOrdinal(<<1970, 1, 1>>)) * 86400
    + dt[4] * 3600 + dt[5] * 60 + dt[6]

\* strptime: the naive datetime, or the exception.
Strptime(v) ==
  IF ~IsStr(v) THEN [ok |-> FALSE, dt |-> <<>>, err |-> "TypeError"]
  ELSE IF v.k = "iso" /\ ValidDateTime(v.dt)
    THEN [ok |-> TRUE, dt |-> v.dt, err |-> ""]
  ELSE [ok |-> FALSE, dt |-> <<>>, err |-> "ValueError"]

\* datetime.timestamp() of a naive datetime: dt is read as the machine's
\* local time, so the clock reading is moved by the local offset.
Timestamp(dt) == SecondsSinceEpochReading(dt) - tz

\* int(dt.timestamp() * 1000)
ToMillis(dt) == Timestamp(dt) * 1000

-----------------------------------------------------------------------------
(* Entries and the two converters.                                         *)

\* What a converter returns when it raises.
NoEntry == [sensor |-> Null, value |-> Null, timestamp |-> Null]

Raise(e) == [ok |-> FALSE, val |-> NoEntry, err |-> e]
Return(v) == [ok |-> TRUE, val |-> v, err |-> ""]

\* Variant: the value is tested with `not sensor_value`, so 0 counts as missing.
ConvertData1EntryTruthyValue(entry) ==
  IF ~entry.obj THEN Raise("AttributeError")
  ELSE LET iso_time == Get(entry.timestamp)
           sensor_id == Get(entry.id)
           sensor_value == Get(entry.value)
       IN IF Falsy(iso_time) THEN Raise("ValueError: Missing timestamp")
          ELSE IF ~Strptime(iso_time).ok THEN Raise(Strptime(iso_time).err)
          ELSE IF Falsy(sensor_id) THEN Raise("ValueError: Missing sensor ID")
          ELSE IF Falsy(sensor_value)
            THEN Raise("ValueError: Missing sensor value")
          ELSE Return([sensor |-> sensor_id, value |-> sensor_value,
                       timestamp |-> Num(ToMillis(Strptime(iso_time).dt))])

ConvertData1Entry(entry) ==
  IF ~entry.obj THEN Raise("AttributeError")
  ELSE LET iso_time == Get(entry.timestamp)
           sensor_id == Get(entry.id)
           sensor_value == Get(entry.value)
       IN IF Falsy(iso_time) THEN Raise("ValueError: Missing timestamp")
          ELSE IF ~Strptime(iso_time).ok THEN Raise(Strptime(iso_time).err)
          ELSE IF Falsy(sensor_id) THEN Raise("ValueError: Missing sensor ID")
          ELSE IF IsNone(sensor_value)
            THEN Raise("ValueError: Missing sensor value")
          ELSE Return([sensor |-> sensor_id, value |-> sensor_value,
                       timestamp |-> Num(ToMillis(Strptime(iso_time).dt))])

\* Variant: reading and time end up in each other's field.
ConvertData2EntrySwapped(entry) ==
  IF ~entry.obj THEN Raise("AttributeError")
  ELSE LET device_id == Get(entry.deviceId)
           reading == Get(entry.reading)
           time == Get(entry.time)
       IN IF Falsy(device_id) THEN Raise("ValueError: Missing deviceId")
          ELSE IF IsNone(reading) THEN Raise("ValueError: Missing reading")
          ELSE IF IsNone(time) THEN Raise("ValueError: Missing time")
          ELSE Return([sensor |-> device_id, value |-> time,
                       timestamp |-> reading])

ConvertData2Entry(entry) ==
  IF ~entry.obj THEN Raise("AttributeError")
  ELSE LET device_id == Get(entry.deviceId)
           reading == Get(entry.reading)
           time == Get(entry.time)
       IN IF Falsy(device_id) THEN Raise("ValueError: Missing deviceId")
          ELSE IF IsNone(reading) THEN Raise("ValueError: Missing reading")
          ELSE IF IsNone(time) THEN Raise("ValueError: Missing time")
          ELSE Return([sensor |-> device_id, value |-> reading,
                       timestamp |-> time])

-----------------------------------------------------------------------------
(* list.sort(key=lambda x: x['timestamp']) for a list shorter than 64:     *)
(* the leading run is found (reversed when strictly descending) and the    *)
(* rest is inserted by binary search after its equals.  `<` between an int *)
(* and a str raises TypeError.                                             *)

SameType(a, b) == (a.k = "int" /\ b.k = "int") \/ (IsStr(a) /\ IsStr(b))

\* a < b for two values of one type.
Lt(a, b) == a.n < b.n

KeyComparable(x, y) == SameType(x.timestamp, y.timestamp)
KeyLt(x, y) == Lt(x.timestamp, y.timestamp)

Reverse(s) == [i \in 1..Len(s) |-> s[Len(s) + 1 - i]]

\* The last index of the run that starts at 1 and has reached i.
RECURSIVE RunEnd(_, _, _)
RunEnd(s, i, desc) ==
  IF i = Len(s) THEN [ok |-> TRUE, n |-> i]
  ELSE IF ~KeyComparable(s[i + 1], s[i]) THEN [ok |-> FALSE, n |-> i]
  ELSE IF KeyLt(s[i + 1], s[i]) = desc THEN RunEnd(s, i + 1, desc)
  ELSE [ok |-> TRUE, n |-> i]

\* The list with its leading run ascending, and the run's length.
CountRun(s) ==
  IF ~KeyComparable(s[2], s[1]) THEN [ok |-> FALSE, seq |-> s, n |-> 1]
  ELSE LET desc == KeyLt(s[2], s[1])
           r == RunEnd(s, 2, desc)
       IN [ok |-> r.ok,
           seq |-> IF desc
                     THEN Reverse(SubSeq(s, 1, r.n)) \o SubSeq(s, r.n + 1, Len(s))
                     ELSE s,
           n |-> r.n]

\* Where pivot goes in s[l..r-1]: after every element not greater than it.
RECURSIVE BisectRight(_, _, _, _)
BisectRight(s, pivot, l, r) ==
  IF l >= r THEN [ok |-> TRUE, pos |-> l]
  ELSE LET p == l + ((r - l) \div 2)
       IN IF ~KeyComparable(pivot, s[p]) THEN [ok |-> FALSE, pos |-> l]
          ELSE IF KeyLt(pivot, s[p]) THEN BisectRight(s, pivot, l, p)
          ELSE BisectRight(s, pivot, p + 1, r)

\* Variant: where pivot goes before its equals.
RECURSIVE BisectLeft(_, _, _, _)
BisectLeft(s, pivot, l, r) ==
  IF l >= r THEN [ok |-> TRUE, pos |-> l]
  ELSE LET p == l + ((r - l) \div 2)
       IN IF ~KeyComparable(pivot, s[p]) THEN [ok |-> FALSE, pos |-> l]
          ELSE IF KeyLt(s[p], pivot) THEN BisectLeft(s, pivot, p + 1, r)
          ELSE BisectLeft(s, pivot, l, p)

\* s with s[start] moved to position pos <= start.
InsertAt(s, start, pos) ==
  SubSeq(s, 1, pos - 1) \o <<s[start]>> \o SubSeq(s, pos, start - 1)
    \o SubSeq(s, start + 1, Len(s))

\* s[1..start-1] is sorted; insert s[start], s[start+1], ...  (The list is
\* bound to t once, so that it is not computed again at each use.)
RECURSIVE BinarySort(_, _)
BinarySort(s, start) ==
  CHOOSE r \in
    { IF start > Len(t) THEN [ok |-> TRUE, seq |-> t]
      ELSE LET b == BisectRight(t, t[start], 1, start)
           IN IF ~b.ok THEN [ok |-> FALSE, seq |-> t]
              ELSE BinarySort(InsertAt(t, start, b.pos), start + 1)
      : t \in {s} } : TRUE

\* Variant: insertion before equals.
RECURSIVE BinarySortLeft(_, _)
BinarySortLeft(s, start) ==
  CHOOSE r \in
    { IF start > Len(t) THEN [ok |-> TRUE, seq |-> t]
      ELSE LET b == BisectLeft(t, t[start], 1, start)
           IN IF ~b.ok THEN [ok |-> FALSE, seq |-> t]
              ELSE BinarySortLeft(InsertAt(t, start, b.pos), start + 1)
      : t \in {s} } : TRUE

\* A sort that puts an entry before its equals.
ListSortUnstable(s) ==
  IF Len(s) < 2 THEN [ok |-> TRUE, seq |-> s]
  ELSE LET run == CountRun(s)
       IN IF ~run.ok THEN [ok |-> FALSE, seq |-> s]
          ELSE BinarySortLeft(run.seq, run.n + 1)

\* The sorted list, or ok = FALSE when a comparison raised TypeError.
ListSort(s) ==
  IF Len(s) < 2 THEN [ok |-> TRUE, seq |-> s]
  ELSE LET run == CountRun(s)
       IN IF ~run.ok THEN [ok |-> FALSE, seq |-> s]
          ELSE BinarySort(run.seq, run.n + 1)

-----------------------------------------------------------------------------
(* The inputs.                                                             *)

EntryA(i, v, t) == [obj |-> TRUE, id |-> i, value |-> v, timestamp |-> t]
EntryB(d, r, t) == [obj |-> TRUE, deviceId |-> d, reading |-> r, time |-> t]

\* An array element that is not an object (a number, a string, null).
NotObjA == [obj |-> FALSE, id |-> Absent, value |-> Absent, timestamp |-> Absent]
NotObjB == [obj |-> FALSE, deviceId |-> Absent, reading |-> Absent, time |-> Absent]

\* 1970-01-01T00:00:01Z and 1970-01-01T00:00:02Z
T1 == IsoText(1970, 1, 1, 0, 0, 1)
T2 == IsoText(1970, 1, 1, 0, 0, 2)

\* Entries of data-1.json in Spec: two with one timestamp (one of them with
\* value 0), a later one, and an element that is not an object.
SamplesA ==
  { EntryA(Text(1), Num(5), T1), EntryA(Text(2), Num(0), T1),
    EntryA(Text(1), Num(5), T2), NotObjA }

\* Entries of data-2.json in Spec: times 1000 and 0, a zero reading, a time
\* that is a string, an empty deviceId.
SamplesB ==
  { EntryB(Text(3), Num(5), Num(1000)), EntryB(Text(4), Num(0), Num(0)),
    EntryB(Text(3), Num(5), Text(1)), EntryB(Text(0), Num(5), Num(1000)) }

\* Every entry over these field values, for SpecWide.
WideA ==
  { EntryA(i, v, t) :
      i \in {Absent, Null, Text(0), Text(1), Num(0)},
      v \in {Absent, Null, Num(0), Num(5), Text(0)},
      t \in {Absent, Null, Text(0), Text(1), Num(5), T1, T2,
             IsoText(1970, 2, 29, 0, 0, 0), IsoText(1970, 1, 1, 0, 0, 60),
             IsoText(1970, 13, 1, 0, 0, 0), IsoText(1970, 1, 2, 23, 59, 59)} }
    \cup {NotObjA}

WideB ==
  { EntryB(d, r, t) :
      d \in {Absent, Null, Text(0), Text(3), Num(0)},
      r \in {Absent, Null, Num(0), Num(5), Text(0)},
      t \in {Absent, Null, Num(0), Num(1000), Text(0), Text(1)} }
    \cup {NotObjB}

\* Offsets of local time from UTC: UTC, UTC+05:30, UTC-05:00.
TzOffsets == {0, 19800, -18000}

SeqsUpTo(S, n) == UNION {[1..k -> S] : k \in 0..n}

\* A file on disk: missing, not readable, not JSON, a JSON number, or a
\* JSON array of entries.
File(st, items) == [st |-> st, items |-> items]

FilesOf(datasets) ==
  {File(st, <<>>) : st \in {"missing", "unreadable", "badjson", "number"}}
    \cup {File("list", s) : s \in datasets}

\* output.json before the run: not there, or there from an earlier run.
OutputBefore == {File("absent", <<>>), File("old", <<>>)}

-----------------------------------------------------------------------------
(* main()                                                                  *)

NoCall == [fmt |-> "none", entry |-> NotObjA, res |-> Raise("")]

InitRun ==
  /\ pc = "Start"
  /\ exitCode = -1
  /\ abortCause = ""
  /\ data1 = <<>>
  /\ data2 = <<>>
  /\ idx = 1
  /\ converted1 = <<>>
  /\ converted2 = <<>>
  /\ result = <<>>
  /\ lastCall = NoCall
  /\ opens = 0
  /\ loads = <<>>
  /\ steps = <<>>

\* Spec: datasets of up to MaxLen sample entries, on a UTC or UTC+05:30 machine.
Init ==
  /\ tz \in {0, 19800}
  /\ file1 \in FilesOf(SeqsUpTo(SamplesA, MaxLen))
  /\ file2 \in FilesOf(SeqsUpTo(SamplesB, MaxLen))
  /\ output \in OutputBefore
  /\ InitRun

\* SpecWide: one entry per file, over every combination of field values.
InitWide ==
  /\ tz \in TzOffsets
  /\ file1 \in FilesOf({<<e>> : e \in WideA})
  /\ file2 \in FilesOf({<<e>> : e \in WideB})
  /\ output = File("old", <<>>)
  /\ InitRun

\* Variant: the handler logs the error and does not call sys.exit(1).
AbortLogOnly(cause) ==
  /\ pc' = "Aborted"
  /\ exitCode' = 0
  /\ abortCause' = cause

\* sys.exit(1), from the input check or from main's handler.
Abort(cause) ==
  /\ pc' = "Aborted"
  /\ exitCode' = 1
  /\ abortCause' = cause

\* os.path.exists
Exists(f) == f.st # "missing"

\* Variant: only data-1.json is checked.
CheckInputsFirstOnly ==
  /\ pc = "Start"
  /\ IF ~Exists(file1)
       THEN Abort("missing input") /\ steps' = steps
       ELSE /\ pc' = "InputsChecked"
            /\ steps' = Append(steps, "check")
            /\ UNCHANGED <<exitCode, abortCause>>
  /\ UNCHANGED <<tz, file1, file2, output, data1, data2, idx, converted1,
                 converted2, result, lastCall, opens, loads>>

\* Variant: output.json is opened for writing before the inputs are checked.
CheckInputsTruncating ==
  /\ pc = "Start"
  /\ opens' = opens + 1
  /\ output' = File("truncated", <<>>)
  /\ IF ~Exists(file1) \/ ~Exists(file2)
       THEN Abort("missing input") /\ steps' = steps
       ELSE /\ pc' = "InputsChecked"
            /\ steps' = Append(steps, "check")
            /\ UNCHANGED <<exitCode, abortCause>>
  /\ UNCHANGED <<tz, file1, file2, data1, data2, idx, converted1,
                 converted2, result, lastCall, loads>>

\* Both inputs must exist, or the run exits with 1.
CheckInputs ==
  /\ pc = "Start"
  /\ IF ~Exists(file1) \/ ~Exists(file2)
       THEN Abort("missing input") /\ steps' = steps
       ELSE /\ pc' = "InputsChecked"
            /\ steps' = Append(steps, "check")
            /\ UNCHANGED <<exitCode, abortCause>>
  /\ UNCHANGED <<tz, file1, file2, output, data1, data2, idx, converted1,
                 converted2, result, lastCall, opens, loads>>

\* load_json_file: the parsed value, or the exception it logs and raises.
LoadJsonFile(f) ==
  CASE f.st = "missing" -> [ok |-> FALSE, err |-> "FileNotFoundError"]
    [] f.st = "unreadable" -> [ok |-> FALSE, err |-> "PermissionError"]
    [] f.st = "badjson" -> [ok |-> FALSE, err |-> "JSONDecodeError"]
    [] OTHER -> [ok |-> TRUE, err |-> ""]

\* len(x) works on a list, not on a number.
HasLen(f) == f.st = "list"

\* Load data1, then data2, then log both lengths.
LoadInputs ==
  /\ pc = "InputsChecked"
  /\ IF ~LoadJsonFile(file1).ok
       THEN /\ Abort("load")
            /\ loads' = loads \o <<"data-1.json">>
            /\ UNCHANGED <<data1, data2, steps>>
     ELSE IF ~LoadJsonFile(file2).ok
       THEN /\ Abort("load")
            /\ loads' = loads \o <<"data-1.json", "data-2.json">>
            /\ UNCHANGED <<data1, data2, steps>>
     ELSE IF ~HasLen(file1) \/ ~HasLen(file2)
       THEN /\ Abort("len")
            /\ loads' = loads \o <<"data-1.json", "data-2.json">>
            /\ UNCHANGED <<data1, data2, steps>>
     ELSE /\ pc' = "Loaded"
          /\ loads' = loads \o <<"data-1.json", "data-2.json">>
          /\ data1' = file1.items
          /\ data2' = file2.items
          /\ steps' = Append(steps, "load")
          /\ UNCHANGED <<exitCode, abortCause>>
  /\ idx' = 1
  /\ UNCHANGED <<tz, file1, file2, output, converted1, converted2, result,
                 lastCall, opens>>

\* A loop that stops at the first entry that fails.
ConvertNext1Breaking ==
  /\ pc = "Loaded"
  /\ idx <= Len(data1)
  /\ LET r == ConvertData1Entry(data1[idx])
     IN /\ lastCall' = [fmt |-> "A", entry |-> data1[idx], res |-> r]
        /\ converted1' = IF r.ok THEN Append(converted1, r.val) ELSE converted1
        /\ idx' = IF r.ok THEN idx + 1 ELSE Len(data1) + 1
  /\ UNCHANGED <<tz, file1, file2, output, pc, exitCode, abortCause, data1,
                 data2, converted2, result, opens, loads, steps>>

\* One iteration of convert_dataset(data1, convert_data1_entry).
ConvertNext1 ==
  /\ pc = "Loaded"
  /\ idx <= Len(data1)
  /\ LET r == ConvertData1Entry(data1[idx])
     IN /\ lastCall' = [fmt |-> "A", entry |-> data1[idx], res |-> r]
        /\ converted1' = IF r.ok THEN Append(converted1, r.val) ELSE converted1
  /\ idx' = idx + 1
  /\ UNCHANGED <<tz, file1, file2, output, pc, exitCode, abortCause, data1,
                 data2, converted2, result, opens, loads, steps>>

\* convert_dataset(data1, ...) returns; convert_dataset(data2, ...) starts.
ConvertDone1 ==
  /\ pc = "Loaded"
  /\ idx > Len(data1)
  /\ pc' = "Converting2"
  /\ idx' = 1
  /\ UNCHANGED <<tz, file1, file2, output, exitCode, abortCause, data1,
                 data2, converted1, converted2, result, lastCall, opens,
                 loads, steps>>

\* One iteration of convert_dataset(data2, convert_data2_entry).
ConvertNext2 ==
  /\ pc = "Converting2"
  /\ idx <= Len(data2)
  /\ LET r == ConvertData2Entry(data2[idx])
     IN /\ lastCall' = [fmt |-> "B", entry |-> data2[idx], res |-> r]
        /\ converted2' = IF r.ok THEN Append(converted2, r.val) ELSE converted2
  /\ idx' = idx + 1
  /\ UNCHANGED <<tz, file1, file2, output, pc, exitCode, abortCause, data1,
                 data2, converted1, result, opens, loads, steps>>

ConvertDone2 ==
  /\ pc = "Converting2"
  /\ idx > Len(data2)
  /\ pc' = "Converted"
  /\ steps' = Append(steps, "convert")
  /\ UNCHANGED <<tz, file1, file2, output, exitCode, abortCause, data1,
                 data2, idx, converted1, converted2, result, lastCall, opens,
                 loads>>

\* result = converted_data1 + converted_data2
Merge ==
  /\ pc = "Converted"
  /\ result' = converted1 \o converted2
  /\ pc' = "Merged"
  /\ steps' = Append(steps, "merge")
  /\ UNCHANGED <<tz, file1, file2, output, exitCode, abortCause, data1,
                 data2, idx, converted1, converted2, lastCall, opens, loads>>

\* result.sort(key=...): sorted in place, or TypeError reaches main's handler.
Sort ==
  /\ pc = "Merged"
  /\ LET r == ListSort(result)
     IN IF r.ok
          THEN /\ result' = r.seq
               /\ pc' = "Sorted"
               /\ steps' = Append(steps, "sort")
               /\ UNCHANGED <<exitCode, abortCause>>
          ELSE /\ Abort("sort")
               /\ UNCHANGED <<result, steps>>
  /\ UNCHANGED <<tz, file1, file2, output, data1, data2, idx, converted1,
                 converted2, lastCall, opens, loads>>

\* save_json_file: open(filename, 'w') is refused, or truncates the file;
\* json.dump then writes all of it, or the write fails part-way.
Save ==
  /\ pc = "Sorted"
  /\ opens' = opens + 1
  /\ \/ /\ Abort("save")
        /\ UNCHANGED <<output, steps>>
     \/ /\ output' = File("truncated", <<>>)
        /\ Abort("save")
        /\ UNCHANGED steps
     \/ /\ output' = File("written", result)
        /\ pc' = "Saved"
        /\ steps' = Append(steps, "save")
        /\ UNCHANGED <<exitCode, abortCause>>
  /\ UNCHANGED <<tz, file1, file2, data1, data2, idx, converted1, converted2,
                 result, lastCall, loads>>

\* main returns; the interpreter exits with 0.
Finish ==
  /\ pc = "Saved"
  /\ pc' = "Done"
  /\ exitCode' = 0
  /\ UNCHANGED <<tz, file1, file2, output, abortCause, data1, data2, idx,
                 converted1, converted2, result, lastCall, opens, loads,
                 steps>>

Next ==
  \/ CheckInputs
  \/ LoadInputs
  \/ ConvertNext1
  \/ ConvertDone1
  \/ ConvertNext2
  \/ ConvertDone2
  \/ Merge
  \/ Sort
  \/ Save
  \/ Finish

Spec == Init /\ [][Next]_vars

SpecWide == InitWide /\ [][Next]_vars

\* main() is one sequential process: while a step is possible, one is taken.
FairSpec == Spec /\ WF_vars(Next)

-----------------------------------------------------------------------------
(* Properties.                                                             *)

Terminal == {"Done", "Aborted"}

\* main() has sorted result (and may have gone on to save it).
SortCompleted == Len(steps) >= 5 /\ steps[5] = "sort"

\* Position of m[j] in the stable ascending order of m by timestamp: one
\* more than the number of entries that are smaller, or equal and earlier.
Rank(m, j) ==
  1 + Cardinality({k \in 1..Len(m) :
                     \/ Lt(m[k].timestamp, m[j].timestamp)
                     \/ m[k].timestamp = m[j].timestamp /\ k < j})

\* C1: once main() has sorted, result is the concatenation converted1 \o
\* converted2 stably sorted ascending by timestamp: same length, every entry
\* of the concatenation at the position its timestamp and its place in the
\* concatenation give it (so none added, dropped or merged, and equal
\* timestamps keep concatenation order), timestamps non-decreasing; and what
\* save writes is that sequence.
C1_StableSortedMerge ==
  SortCompleted =>
    LET m == converted1 \o converted2
    IN /\ Len(result) = Len(m)
       /\ \A j \in 1..Len(m) : result[Rank(m, j)] = m[j]
       /\ \A i \in 1..(Len(result) - 1) :
            ~Lt(result[i + 1].timestamp, result[i].timestamp)
       /\ output.st = "written" => output.items = result

\* A sorted result of four entries that the sort had to reorder, with a
\* Format-A entry directly before a Format-B entry of the same timestamp.
C1_Witness ==
  /\ pc = "Sorted"
  /\ Len(result) = 4
  /\ result # converted1 \o converted2
  /\ \E i \in 1..3 :
       /\ result[i].timestamp = result[i + 1].timestamp
       /\ result[i] \in {converted1[j] : j \in 1..Len(converted1)}
       /\ result[i + 1] \in {converted2[j] : j \in 1..Len(converted2)}
       /\ result[i] # result[i + 1]

\* The converter results of the entries of s that convert, in order.
Expected1(s) ==
  LET good == SelectSeq(s, LAMBDA e : ConvertData1Entry(e).ok)
  IN [j \in 1..Len(good) |-> ConvertData1Entry(good[j]).val]

Expected2(s) ==
  LET good == SelectSeq(s, LAMBDA e : ConvertData2Entry(e).ok)
  IN [j \in 1..Len(good) |-> ConvertData2Entry(good[j]).val]

Failing1(s) == {i \in 1..Len(s) : ~ConvertData1Entry(s[i]).ok}
Failing2(s) == {i \in 1..Len(s) : ~ConvertData2Entry(s[i]).ok}

Converting1Done == pc \in {"Converting2", "Converted", "Merged", "Sorted", "Saved", "Done"}
                     \/ (pc = "Aborted" /\ abortCause \in {"sort", "save"})
Converting2Done == Converting1Done /\ pc # "Converting2"

\* C2: convert_dataset returns exactly the converter's results for the
\* entries that convert, in their original order: while the loop runs the
\* result holds those of the entries seen so far, and when it has returned,
\* those of the whole dataset, N - K of them when K of the N entries fail.
C2_ConvertDatasetSkipsFailures ==
  /\ pc = "Loaded" => converted1 = Expected1(SubSeq(data1, 1, idx - 1))
  /\ pc = "Converting2" => converted2 = Expected2(SubSeq(data2, 1, idx - 1))
  /\ Converting1Done =>
       /\ converted1 = Expected1(data1)
       /\ Len(converted1) = Len(data1) - Cardinality(Failing1(data1))
  /\ Converting2Done =>
       /\ converted2 = Expected2(data2)
       /\ Len(converted2) = Len(data2) - Cardinality(Failing2(data2))

\* A dataset whose first entry fails and whose second entry is converted.
C2_Witness ==
  /\ pc = "Converting2"
  /\ Len(data1) = 2
  /\ Failing1(data1) = {1}
  /\ Len(converted1) = 1

NonNull(v) == v.k \notin {"absent", "null"}
NonEmptyText(v) == IsStr(v) /\ ~(v.k = "str" /\ v.n = 0)

\* Milliseconds from 1970-01-01T00:00:00 UTC to dt read as UTC.
UtcMillis(dt) == SecondsSinceEpochReading(dt) * 1000

\* C3: a Format-A entry with a non-empty id, a non-null value and a
\* well-formed timestamp of a valid calendar time converts to
\* {sensor: id, value: value, timestamp: ms}, ms being the milliseconds from
\* the epoch to that time read as UTC, whatever the machine's time zone.
C3_UtcEpochMillis ==
  (/\ lastCall.fmt = "A"
   /\ lastCall.entry.obj
   /\ NonEmptyText(lastCall.entry.id)
   /\ NonNull(lastCall.entry.value)
   /\ lastCall.entry.timestamp.k = "iso"
   /\ ValidDateTime(lastCall.entry.timestamp.dt))
  => /\ lastCall.res.ok
     /\ lastCall.res.val =
          [sensor |-> lastCall.entry.id, value |-> lastCall.entry.value,
           timestamp |-> Num(UtcMillis(lastCall.entry.timestamp.dt))]

PassedThrough(call) ==
  /\ call.res.ok
  /\ call.res.val = [sensor |-> call.entry.deviceId,
                     value |-> call.entry.reading,
                     timestamp |-> call.entry.time]

\* C4 as stated: a Format-B entry whose deviceId, reading and time are all
\* non-null converts to {sensor: deviceId, value: reading, timestamp: time}.
C4_NonNullFieldsConvert ==
  (/\ lastCall.fmt = "B"
   /\ lastCall.entry.obj
   /\ NonNull(lastCall.entry.deviceId)
   /\ NonNull(lastCall.entry.reading)
   /\ NonNull(lastCall.entry.time))
  => PassedThrough(lastCall)

\* C4 amended: a Format-B entry whose deviceId is not null, not "" and not 0
\* and whose reading and time are non-null converts to
\* {sensor: deviceId, value: reading, timestamp: time}, the three unchanged.
C4_TruthyDeviceIdConverts ==
  (/\ lastCall.fmt = "B"
   /\ lastCall.entry.obj
   /\ ~Falsy(Get(lastCall.entry.deviceId))
   /\ NonNull(lastCall.entry.reading)
   /\ NonNull(lastCall.entry.time))
  => PassedThrough(lastCall)

\* A Format-B entry with a zero reading and a string for its time, converted.
C4_Witness ==
  /\ lastCall.fmt = "B"
  /\ lastCall.entry = EntryB(Text(3), Num(0), Text(1))
  /\ lastCall.res.ok

\* The entries of s (a sequence) as a set.
Range(s) == {s[i] : i \in 1..Len(s)}

\* C5: zero is not missing.  A Format-A entry with value 0, a Format-B entry
\* with reading 0 or time 0, the other fields valid, is converted with the 0
\* kept, and is in output.json when the run saves; and the failures "Missing
\* sensor value", "Missing reading", "Missing time" happen only for a field
\* that is absent or null.
C5_ZeroIsNotMissing ==
  /\ (/\ lastCall.fmt = "A"
      /\ lastCall.entry.obj
      /\ lastCall.entry.value = Num(0)
      /\ ~Falsy(Get(lastCall.entry.id))
      /\ Strptime(lastCall.entry.timestamp).ok)
     => lastCall.res.ok /\ lastCall.res.val.value = Num(0)
  /\ (/\ lastCall.fmt = "B"
      /\ lastCall.entry.obj
      /\ lastCall.entry.reading = Num(0) \/ lastCall.entry.time = Num(0)
      /\ ~Falsy(Get(lastCall.entry.deviceId))
      /\ NonNull(lastCall.entry.reading)
      /\ NonNull(lastCall.entry.time))
     => PassedThrough(lastCall)
  /\ lastCall.res.err = "ValueError: Missing sensor value"
       => lastCall.fmt = "A" /\ ~NonNull(lastCall.entry.value)
  /\ lastCall.res.err = "ValueError: Missing reading"
       => lastCall.fmt = "B" /\ ~NonNull(lastCall.entry.reading)
  /\ lastCall.res.err = "ValueError: Missing time"
       => lastCall.fmt = "B" /\ ~NonNull(lastCall.entry.time)
  /\ output.st = "written" =>
       /\ \A i \in 1..Len(data1) :
            (/\ data1[i].obj
             /\ data1[i].value = Num(0)
             /\ ~Falsy(Get(data1[i].id))
             /\ Strptime(data1[i].timestamp).ok)
            => \E e \in Range(output.items) :
                 e.sensor = data1[i].id /\ e.value = Num(0)
       /\ \A i \in 1..Len(data2) :
            (/\ data2[i].obj
             /\ data2[i].reading = Num(0) \/ data2[i].time = Num(0)
             /\ ~Falsy(Get(data2[i].deviceId))
             /\ NonNull(data2[i].reading)
             /\ NonNull(data2[i].time))
            => \E e \in Range(output.items) :
                 /\ e.sensor = data2[i].deviceId
                 /\ e.value = data2[i].reading
                 /\ e.timestamp = data2[i].time

\* A finished run whose output holds a Format-A entry with value 0 and a
\* Format-B entry with reading 0 and time 0.
C5_Witness ==
  /\ pc = "Done"
  /\ Len(data1) = 1 /\ data1[1].value = Num(0)
  /\ Len(data2) = 1 /\ data2[1].reading = Num(0) /\ data2[1].time = Num(0)
  /\ Len(output.items) = 2

\* C6: when data-1.json or data-2.json is missing, the run goes from the
\* input check straight to exit code 1: no file is loaded, no entry
\* converted, output.json never opened and left as it was.
C6_MissingInputExits ==
  (~Exists(file1) \/ ~Exists(file2)) =>
    /\ pc \in {"Start", "Aborted"}
    /\ pc = "Start" => ENABLED CheckInputs
    /\ pc = "Aborted" => exitCode = 1 /\ abortCause = "missing input"
    /\ loads = <<>>
    /\ lastCall = NoCall
    /\ converted1 = <<>> /\ converted2 = <<>> /\ result = <<>>
    /\ opens = 0
    /\ output \in OutputBefore

\* data-1.json is there, data-2.json is not, output.json is from an earlier
\* run, and the run has exited.
C6_Witness ==
  /\ pc = "Aborted"
  /\ Exists(file1)
  /\ ~Exists(file2)
  /\ output = File("old", <<>>)

\* What the exit code and the completed steps are at each position.
ExitCodeMatchesState ==
  /\ exitCode \in {-1, 0, 1}
  /\ pc = "Done" =>
       /\ exitCode = 0
       /\ abortCause = ""
       /\ steps = <<"check", "load", "convert", "merge", "sort", "save">>
  /\ pc = "Aborted" =>
       /\ exitCode = 1
       /\ abortCause \in {"missing input", "load", "len", "sort", "save"}
  /\ pc \notin Terminal => exitCode = -1 /\ abortCause = ""

\* C7: every run ends, and ends Done with exit code 0, after check, load,
\* convert, merge, sort and save completed in that order, or Aborted with
\* exit code 1, after a missing input or a failure of load, len, sort or
\* save; until then it has not exited.
C7_TwoTerminalStates == []ExitCodeMatchesState /\ <>(pc \in Terminal)

\* A run that went through the whole pipeline and aborted in save, after
\* output.json was truncated.
C7_Witness ==
  /\ pc = "Aborted"
  /\ abortCause = "save"
  /\ exitCode = 1
  /\ output.st = "truncated"
  /\ steps = <<"check", "load", "convert", "merge", "sort">>

\* C8: once both files have loaded as arrays, the run aborts only in save,
\* whatever the entries hold.
C8_BadEntryNeverAborts ==
  (pc = "Aborted" /\ Len(steps) >= 2 /\ steps[2] = "load") => abortCause = "save"

WellFormed(e) ==
  /\ DOMAIN e = {"sensor", "value", "timestamp"}
  /\ NonNull(e.sensor)
  /\ NonNull(e.value)
  /\ e.timestamp.k = "int"

\* C9: every entry a converter produced, and every entry written to
\* output.json, has the keys sensor, value and timestamp, none of them null,
\* and an integer timestamp.
C9_UnifiedEntriesWellFormed ==
  \A e \in Range(converted1) \cup Range(converted2) \cup Range(result)
             \cup Range(output.items) : WellFormed(e)

\* C10: output.json is opened for writing at most once, and only after the
\* sort completed; a run that aborted before save has not opened it and has
\* left it as it was.
C10_NoEarlyWrite ==
  /\ opens \in {0, 1}
  /\ opens = 1 => SortCompleted
  /\ output \notin OutputBefore => opens = 1
  /\ (pc = "Aborted" /\ abortCause # "save") =>
       opens = 0 /\ output \in OutputBefore

\* A run that converted two entries and aborted in the sort, with the
\* output.json of an earlier run still there.
C10_Witness ==
  /\ pc = "Aborted"
  /\ abortCause = "sort"
  /\ Len(converted1 \o converted2) >= 2
  /\ opens = 0
  /\ output = File("old", <<>>)

====
